---- MODULE Spec2Model ----
(***************************************************************************)
(* Model of the PDF -> Markdown page pipeline of src/pdf_to_markdown.py    *)
(* (PDFToMarkdownConverter) with its collaborators in                      *)
(* src/image_extractor.py and src/bedrock_client.py.                       *)
(*                                                                         *)
(* Page text is modelled as a sequence of lexical tokens:                  *)
(*   [k |-> "txt"]                 text without the placeholder literal    *)
(*   [k |-> "ws"]                  a run of whitespace (may hold newlines) *)
(*   [k |-> "ph", alt |-> a]       ![a](IMAGE_PLACEHOLDER)                 *)
(*   [k |-> "tok"]                 the literal IMAGE_PLACEHOLDER outside   *)
(*                                 the image-link form                     *)
(*   [k |-> "cmt", desc, ml, meta] an HTML comment <!-- desc -->; ml says  *)
(*                                 that desc spans several lines           *)
(*   [k |-> "img", alt, path]      ![a](dir/file), a resolved link         *)
(*   [k |-> "path", path]          a bare dir/file written by the fallback *)
(*   [k |-> "err", ...]            the inline error marker                 *)
(***************************************************************************)
EXTENDS Integers, Sequences, FiniteSets, TLC

\* ------------------------------------------------------------------ bounds
MaxLen == 4
MaxG == 3
MaxPages == 2
MaxRuns == 2
RunsPages == 1

\* ------------------------------------------------- configuration (config.py)
SAVE_PAGE_IMAGES == TRUE
EXTRACT_EMBEDDED_IMAGES == TRUE
SAVE_IMAGE_METADATA_JSON == TRUE
MIN_IMAGE_WIDTH == 100
MIN_IMAGE_HEIGHT == 100
IMAGES_SUBDIR == "images"

\* retry constants of convert_pdf_to_markdown
max_retries == 3
retry_delay == 2

\* Python's None for optional arguments and locals
None == "None"

\* ------------------------------------------------------------ text tokens
Txt == [k |-> "txt"]
Ws == [k |-> "ws"]
Tok == [k |-> "tok"]
Ph(a) == [k |-> "ph", alt |-> a]
NoMeta == <<>>
Cmt(d, m) == [k |-> "cmt", desc |-> d, ml |-> m, meta |-> NoMeta]

\* the tokens an inference result is built from
ModelTokens == {Txt, Ws, Tok, Ph("a"), Cmt("d", FALSE), Cmt("d", TRUE), Cmt("", FALSE)}

RECURSIVE SeqsUpTo(_, _)
SeqsUpTo(S, n) ==
  IF n = 0 THEN {<<>>}
  ELSE LET shorter == SeqsUpTo(S, n - 1)
       IN shorter \cup {Append(s, x) : s \in {t \in shorter : Len(t) = n - 1}, x \in S}

\* ------------------------------------------------------- graphic metadata
\* image_filename = f"page_{page_num:03d}_img_{img_index:03d}.{image_ext}"
ImageFilename(page_num, img_index, image_ext) ==
  [page |-> page_num, index |-> img_index, ext |-> image_ext]

\* one entry of extract_images_from_page's result
ImageMeta(page_num, img_index, width, height, size, image_ext, output_dir) ==
  [filename |-> ImageFilename(page_num, img_index, image_ext),
   path |-> <<output_dir, ImageFilename(page_num, img_index, image_ext)>>,
   width |-> width, height |-> height, size |-> size,
   format |-> image_ext, page_num |-> page_num, index |-> img_index]

\* f"{size/1024:.1f}" in tenths of a KB: size/1024 is exact in binary
\* floating point, so the format rounds the exact value half-to-even
SizeKB(size) ==
  LET q == (size * 10) \div 1024
      r == (size * 10) % 1024
  IN IF r > 512 \/ (r = 512 /\ q % 2 = 1) THEN q + 1 ELSE q

\* metadata_text of _replace_image_placeholders_single_page
MetadataText(img_meta, page_num) ==
  [file |-> img_meta.filename, width |-> img_meta.width, height |-> img_meta.height,
   kb10 |-> SizeKB(img_meta.size), format |-> img_meta.format, page |-> page_num]

\* ------------------------------------------------ placeholder reconciliation
\* str.replace(old, new, 1) on token sequences: first occurrence only
Occurs(md, old, i) ==
  /\ i + Len(old) - 1 <= Len(md)
  /\ SubSeq(md, i, i + Len(old) - 1) = old

ReplaceAll(md, old, new) ==
  LET F[i \in 1..(Len(md) + 1)] ==
        IF i > Len(md) THEN <<>>
        ELSE IF Occurs(md, old, i) THEN new \o F[i + Len(old)]
        ELSE <<md[i]>> \o F[i + 1]
  IN F[1]

Replace1(md, old, new) ==
  IF \E i \in 1..Len(md) : Occurs(md, old, i)
  THEN LET i == CHOOSE i \in 1..Len(md) :
                  /\ Occurs(md, old, i)
                  /\ \A j \in 1..(i - 1) : ~Occurs(md, old, j)
       IN SubSeq(md, 1, i - 1) \o new \o SubSeq(md, i + Len(old), Len(md))
  ELSE md

\* re.search(pattern, page_markdown) with
\* pattern = !\[([^\]]*)\]\(IMAGE_PLACEHOLDER\)(?:\s*<!--\s*(.*?)\s*-->)?
\* leftmost image-link placeholder; the optional group takes the whitespace
\* and the comment that directly follow, but '.' does not match a newline,
\* so a comment whose description spans lines is not taken
NoMatch == [found |-> FALSE]
PatternSearch(md) ==
  IF \A i \in 1..Len(md) : md[i].k # "ph" THEN NoMatch
  ELSE LET s == CHOOSE i \in 1..Len(md) :
                  md[i].k = "ph" /\ \A j \in 1..(i - 1) : md[j].k # "ph"
           c == CHOOSE i \in (s + 1)..(Len(md) + 1) :
                  /\ \A j \in (s + 1)..(i - 1) : md[j].k = "ws"
                  /\ i <= Len(md) => md[i].k # "ws"
           grp == c <= Len(md) /\ md[c].k = "cmt" /\ ~md[c].ml
       IN [found |-> TRUE,
           group0 |-> SubSeq(md, s, IF grp THEN c ELSE s),
           group1 |-> md[s].alt,
           group2 |-> IF grp THEN md[c].desc ELSE ""]

\* page_markdown.replace("IMAGE_PLACEHOLDER", img_rel_path, 1)
HasLiteral(t) == t.k \in {"tok", "ph"}
FallbackReplace(md, img_rel_path) ==
  IF \E i \in 1..Len(md) : HasLiteral(md[i])
  THEN LET i == CHOOSE i \in 1..Len(md) :
                  HasLiteral(md[i]) /\ \A j \in 1..(i - 1) : ~HasLiteral(md[j])
           t == IF md[i].k = "ph"
                THEN [k |-> "img", alt |-> md[i].alt, path |-> img_rel_path]
                ELSE [k |-> "path", path |-> img_rel_path]
       IN [md EXCEPT ![i] = t]
  ELSE md

\* the replacement text built for a match (new_image_link + comment)
Replacement(match, img_meta, page_num, img_rel_path) ==
  LET metadata_text == MetadataText(img_meta, page_num)
      new_image_link == [k |-> "img", alt |-> match.group1, path |-> img_rel_path]
      existing_comment == match.group2
  IN <<new_image_link, Ws,
       [k |-> "cmt", desc |-> existing_comment, ml |-> existing_comment # "",
        meta |-> metadata_text]>>

ReplaceMatchAll(page_markdown, match, replacement) ==
  ReplaceAll(page_markdown, match.group0, replacement)

ReplaceMatch(page_markdown, match, replacement) ==
  Replace1(page_markdown, match.group0, replacement)

\* one iteration of `for img_meta in extracted_images`
ReplaceOne(page_markdown, img_meta, page_num, images_dirname) ==
  LET img_rel_path == <<images_dirname, img_meta.filename>>
      match == PatternSearch(page_markdown)
  IN IF match.found
     THEN ReplaceMatch(page_markdown, match,
                       Replacement(match, img_meta, page_num, img_rel_path))
     ELSE FallbackReplace(page_markdown, img_rel_path)

RECURSIVE ReplaceLoop(_, _, _, _, _)
ReplaceLoop(page_markdown, extracted_images, i, page_num, images_dirname) ==
  IF i > Len(extracted_images) THEN page_markdown
  ELSE ReplaceLoop(ReplaceOne(page_markdown, extracted_images[i], page_num, images_dirname),
                   extracted_images, i + 1, page_num, images_dirname)

replace_image_placeholders_single_page(page_markdown, extracted_images, page_num, images_dirname) ==
  IF extracted_images = <<>> \/ images_dirname = None THEN page_markdown
  ELSE ReplaceLoop(page_markdown, extracted_images, 1, page_num, images_dirname)


\* ---------------------------------------------------------------- the run
\* None for the optional page arguments, and for page_markdown
NonePage == 0 - 1
NoneMd == <<[k |-> "None"]>>

PageNums == 1..MaxPages
PageArgs(n) == {NonePage} \cup (0..(n + 1))

\* page.get_images() of one page: each embedded graphic has its dimensions
\* and the outcome of doc.extract_image for it
Raw(w, h, st) == [width |-> w, height |-> h, st |-> st, size |-> 2048, ext |-> "png"]
RawLists == {<<>>, <<Raw(100, 100, "ok")>>, <<Raw(99, 100, "ok")>>,
             <<Raw(100, 99, "ok")>>, <<Raw(100, 100, "none")>>,
             <<Raw(100, 100, "raise")>>,
             <<Raw(99, 99, "ok"), Raw(100, 100, "ok")>>,
             <<Raw(100, 100, "ok"), Raw(150, 150, "ok")>>}
RunsRaw == {<<>>, <<Raw(100, 100, "ok")>>}

\* texts the inference service returns in a run
RunTexts == {<<>>, <<Ws>>, <<Txt>>, <<Ph("a"), Ws, Cmt("d", FALSE)>>}
RunsTexts == {<<Txt>>, <<Ph("a")>>}

VARIABLES
  pc,                    \* position of convert_pdf_to_markdown
  runs,                  \* number of calls made so far
  pdf_exists, output_path, first_page, last_page,   \* arguments of the call
  total_pages,           \* info['Pages'] of the document
  outFile,               \* content of the file at output_path (<<>>: absent)
  failedLedger,          \* <<>>: no <stem>_failed_pages.json, <<c>>: content c
  imageLedger,           \* <<>>: no <stem>_images_metadata.json, <<c>>: content c
  images_dir,            \* the <stem>_images directory exists
  page_image_files,      \* page_NNN.png files in images_dir
  tmp_created, tmp_exists, tmp_files,   \* the mkdtemp directory of this run
  temp_dir,              \* local temp_dir of convert_pdf_to_markdown is set
  rfirst, rlast, raster_page, image_paths,   \* locals of pdf_to_images
  all_extracted_images, idx, attempt, page_markdown, failed_pages,
  output_path_obj,       \* local output_path_obj is set
  outcomes, sleeps,      \* history of the attempts for the current page
  appended, header_writes,   \* history of the writes of the run
  error, result,         \* exception raised / summary returned
  r_pc, r_in, r_imgs, r_dir, r_out   \* a call of _replace_image_placeholders_single_page

fsvars == <<outFile, failedLedger, imageLedger, images_dir, page_image_files>>
tmpvars == <<tmp_created, tmp_exists, tmp_files>>
argvars == <<pdf_exists, output_path, first_page, last_page, total_pages>>
rastervars == <<rfirst, rlast, raster_page, image_paths>>
loopvars == <<all_extracted_images, idx, attempt, page_markdown, failed_pages, output_path_obj>>
histvars == <<outcomes, sleeps, appended, header_writes>>
reconvars == <<r_pc, r_in, r_imgs, r_dir, r_out>>
vars == <<pc, runs, argvars, fsvars, tmpvars, temp_dir, rastervars, loopvars,
          histvars, error, result, reconvars>>

NoImages == [p \in PageNums |-> <<>>]
NoHistory == <<>>

InitRun ==
  /\ pc = "idle" /\ runs = 0
  /\ pdf_exists = FALSE /\ output_path = FALSE
  /\ first_page = NonePage /\ last_page = NonePage /\ total_pages = 1
  /\ outFile = <<>> /\ failedLedger = <<>> /\ imageLedger = <<>>
  /\ images_dir = FALSE /\ page_image_files = {}
  /\ tmp_created = FALSE /\ tmp_exists = FALSE /\ tmp_files = {}
  /\ temp_dir = FALSE
  /\ rfirst = 1 /\ rlast = 1 /\ raster_page = 1 /\ image_paths = <<>>
  /\ all_extracted_images = NoImages /\ idx = 1 /\ attempt = 1
  /\ page_markdown = NoneMd /\ failed_pages = <<>> /\ output_path_obj = FALSE
  /\ outcomes = NoHistory /\ sleeps = NoHistory /\ appended = <<>>
  /\ header_writes = 0
  /\ error = None /\ result = <<>>

Init ==
  /\ InitRun
  /\ r_pc = "idle" /\ r_in = <<>> /\ r_imgs = <<>> /\ r_dir = None /\ r_out = <<>>

\* the finally block: rmtree(temp_dir) when the local is set and the
\* directory exists
Finally(local_temp_dir, exists_now) == IF local_temp_dir THEN FALSE ELSE exists_now

\* propagate exception e out of convert_pdf_to_markdown through finally
Raise(e, local_temp_dir, exists_now) ==
  /\ pc' = "raised"
  /\ error' = e
  /\ result' = <<>>
  /\ tmp_exists' = Finally(local_temp_dir, exists_now)


\* exceptions the inference service raises
InferErrors == {"ThrottlingException"}

\* str.strip() and truthiness of page_markdown
RECURSIVE LStrip(_)
LStrip(md) == IF md # <<>> /\ Head(md).k = "ws" THEN LStrip(Tail(md)) ELSE md
RECURSIVE RStrip(_)
RStrip(md) ==
  IF md # <<>> /\ md[Len(md)].k = "ws" THEN RStrip(SubSeq(md, 1, Len(md) - 1)) ELSE md
Strip(md) == RStrip(LStrip(md))
Truthy(md) == md # NoneMd /\ md # <<>>

\* image_extractor.py line 76: the size filter
TooSmallBoth(img, min_width, min_height) ==
  img.width < min_width /\ img.height < min_height

TooSmall(img, min_width, min_height) ==
  img.width < min_width \/ img.height < min_height

\* ImageExtractor.extract_images_from_page on the page's embedded graphics
extract_images_from_page(raw, page_num, output_dir, min_width, min_height) ==
  LET F[i \in 0..Len(raw)] ==
        IF i = 0 THEN <<>>
        ELSE LET img == raw[i]
             IN IF img.st # "ok" THEN F[i - 1]
                ELSE IF TooSmall(img, min_width, min_height) THEN F[i - 1]
                ELSE Append(F[i - 1], ImageMeta(page_num, i, img.width, img.height,
                                                img.size, img.ext, output_dir))
  IN F[Len(raw)]

ImagesDirName == "doc_images"

\* lines 149-172: existence check, images directory, ImageExtractor(pdf_path)
Call(max_runs, max_pages) ==
  /\ pc \in {"idle", "returned", "raised"}
  /\ runs < max_runs
  /\ runs' = runs + 1
  /\ UNCHANGED reconvars
  /\ \E pe \in BOOLEAN, op \in BOOLEAN, fp \in PageArgs(max_pages),
        lp \in PageArgs(max_pages), tp \in 1..max_pages, open_ok \in BOOLEAN :
       /\ pdf_exists' = pe /\ output_path' = op
       /\ first_page' = fp /\ last_page' = lp /\ total_pages' = tp
       /\ IF ~pe
          THEN /\ pc' = "raised" /\ error' = "FileNotFoundError"
               /\ images_dir' = images_dir
          ELSE /\ images_dir' = (images_dir \/
                                 (op /\ (SAVE_PAGE_IMAGES \/ EXTRACT_EMBEDDED_IMAGES)))
               /\ IF EXTRACT_EMBEDDED_IMAGES /\ ~open_ok
                  THEN pc' = "raised" /\ error' = "FileDataError"
                  ELSE pc' = "pdf_to_images" /\ error' = None
  /\ result' = <<>>
  /\ tmp_created' = FALSE /\ tmp_exists' = FALSE /\ tmp_files' = {}
  /\ temp_dir' = FALSE
  /\ rfirst' = 1 /\ rlast' = 1 /\ raster_page' = 1 /\ image_paths' = <<>>
  /\ all_extracted_images' = NoImages /\ idx' = 1 /\ attempt' = 1
  /\ page_markdown' = NoneMd /\ failed_pages' = <<>> /\ output_path_obj' = FALSE
  /\ outcomes' = NoHistory /\ sleeps' = NoHistory /\ appended' = <<>>
  /\ header_writes' = 0
  /\ UNCHANGED <<outFile, failedLedger, imageLedger, page_image_files>>

\* pdf_to_images lines 82-101: mkdtemp, pdfinfo, defaults, range validation
ValidRange(fp, lp, tp) ==
  /\ ~(fp < 1 \/ fp > tp)
  /\ ~(lp < fp \/ lp > tp)

MkTemp ==
  /\ pc = "pdf_to_images"
  /\ UNCHANGED reconvars
  /\ tmp_created' = TRUE
  /\ tmp_files' = {}
  /\ LET fp == IF first_page = NonePage THEN 1 ELSE first_page
         lp == IF last_page = NonePage THEN total_pages ELSE last_page
     IN /\ rfirst' = fp /\ rlast' = lp /\ raster_page' = fp
        /\ IF ValidRange(fp, lp, total_pages)
           THEN /\ pc' = "raster" /\ tmp_exists' = TRUE
                /\ UNCHANGED <<error, result>>
           ELSE Raise("ValueError", temp_dir, TRUE)
  /\ UNCHANGED <<runs, argvars, fsvars, temp_dir, image_paths, loopvars, histvars>>

RasterizePageSkipsFailure ==
  /\ pc = "raster"
  /\ UNCHANGED reconvars
  /\ raster_page <= rlast
  /\ \E ok \in BOOLEAN :
       /\ tmp_files' = IF ok THEN tmp_files \cup {raster_page} ELSE tmp_files
       /\ image_paths' = IF ok THEN Append(image_paths, raster_page) ELSE image_paths
       /\ raster_page' = raster_page + 1
       /\ UNCHANGED <<pc, error, result, tmp_exists>>
  /\ UNCHANGED <<runs, argvars, fsvars, tmp_created, temp_dir, rfirst, rlast,
                 loopvars, histvars>>

\* pdf_to_images lines 105-119: one iteration of the page loop
RasterizePage ==
  /\ pc = "raster"
  /\ UNCHANGED reconvars
  /\ raster_page <= rlast
  /\ \E ok \in BOOLEAN :
       IF ok
       THEN /\ tmp_files' = tmp_files \cup {raster_page}
            /\ image_paths' = Append(image_paths, raster_page)
            /\ raster_page' = raster_page + 1
            /\ UNCHANGED <<pc, error, result, tmp_exists>>
       ELSE /\ Raise("PDFPageCountError", temp_dir, tmp_exists)
            /\ UNCHANGED <<tmp_files, image_paths, raster_page>>
  /\ UNCHANGED <<runs, argvars, fsvars, tmp_created, temp_dir, rfirst, rlast,
                 loopvars, histvars>>

PdfToImagesReturnTruncates ==
  /\ pc = "raster"
  /\ UNCHANGED reconvars
  /\ raster_page > rlast
  /\ temp_dir' = TRUE
  /\ idx' = 1
  /\ pc' = "extract"
  /\ outFile' = IF output_path THEN <<>> ELSE outFile
  /\ UNCHANGED <<runs, argvars, failedLedger, imageLedger, images_dir,
                 page_image_files, tmpvars, rastervars, all_extracted_images,
                 attempt, page_markdown, failed_pages, output_path_obj, histvars,
                 error, result>>

\* pdf_to_images returns; line 176 sets temp_dir
PdfToImagesReturn ==
  /\ pc = "raster"
  /\ UNCHANGED reconvars
  /\ raster_page > rlast
  /\ temp_dir' = TRUE
  /\ idx' = 1
  /\ pc' = "extract"
  /\ UNCHANGED <<runs, argvars, fsvars, tmpvars, rastervars, all_extracted_images,
                 attempt, page_markdown, failed_pages, output_path_obj, histvars,
                 error, result>>

\* lines 179-200: one iteration of the save/extract loop
page_start == IF first_page # NonePage /\ first_page # 0 THEN first_page ELSE 1

\* the local images_dir is set (lines 157-162)
images_dir_local == output_path /\ (SAVE_PAGE_IMAGES \/ EXTRACT_EMBEDDED_IMAGES)

\* line 180: the save/extract loop runs over every rasterized page
ExtractLoopDoneAfterFirst(i) == i >= 1

ExtractLoopDone(i) == i = Len(image_paths)

ExtractPage(raw_lists) ==
  /\ pc = "extract"
  /\ UNCHANGED reconvars
  /\ LET page_num == page_start + (idx - 1)
     IN \E raw \in raw_lists, escapes \in BOOLEAN :
          IF EXTRACT_EMBEDDED_IMAGES /\ images_dir_local /\ escapes
          THEN /\ Raise("RuntimeError", temp_dir, tmp_exists)
               /\ page_image_files' =
                    IF SAVE_PAGE_IMAGES THEN page_image_files \cup {page_num}
                    ELSE page_image_files
               /\ UNCHANGED <<all_extracted_images, idx>>
          ELSE /\ page_image_files' =
                    IF SAVE_PAGE_IMAGES /\ images_dir_local
                    THEN page_image_files \cup {page_num} ELSE page_image_files
               /\ LET extracted ==
                        IF EXTRACT_EMBEDDED_IMAGES /\ images_dir_local
                        THEN extract_images_from_page(raw, page_num, ImagesDirName,
                                                      MIN_IMAGE_WIDTH, MIN_IMAGE_HEIGHT)
                        ELSE <<>>
                  IN all_extracted_images' =
                       IF extracted # <<>>
                       THEN [all_extracted_images EXCEPT ![page_num] = extracted]
                       ELSE all_extracted_images
               /\ idx' = idx + 1
               /\ pc' = IF ExtractLoopDone(idx) THEN "header" ELSE "extract"
               /\ UNCHANGED <<error, result, tmp_exists>>
  /\ UNCHANGED <<runs, argvars, outFile, failedLedger, imageLedger, images_dir,
                 tmp_created, tmp_files, temp_dir, rastervars, attempt, page_markdown,
                 failed_pages, output_path_obj, histvars>>


\* _write_markdown_header: output_path.write_text(header) truncates the file
Header(document_name, n) ==
  [k |-> "header", document |-> document_name, total_pages |-> n]

write_markdown_header_a(file, document_name, n) == Append(file, Header(document_name, n))

write_markdown_header(file, document_name, n) == <<Header(document_name, n)>>

\* lines 205-211, then the page loop starts
WriteHeader ==
  /\ pc = "header"
  /\ UNCHANGED reconvars
  /\ \E io_ok \in BOOLEAN :
       IF output_path /\ ~io_ok
       THEN /\ Raise("OSError", temp_dir, tmp_exists)
            /\ UNCHANGED <<outFile, output_path_obj, header_writes, idx, attempt,
                           page_markdown, failed_pages>>
       ELSE /\ IF output_path
               THEN /\ outFile' = write_markdown_header(outFile, "doc", Len(image_paths))
                    /\ output_path_obj' = TRUE
                    /\ header_writes' = header_writes + 1
               ELSE UNCHANGED <<outFile, output_path_obj, header_writes>>
            /\ failed_pages' = <<>>
            /\ idx' = 1 /\ attempt' = 1 /\ page_markdown' = NoneMd
            /\ pc' = "attempt"
            /\ UNCHANGED <<error, result, tmp_exists>>
  /\ UNCHANGED <<runs, argvars, failedLedger, imageLedger, images_dir, page_image_files,
                 tmp_created, tmp_files, temp_dir, rastervars, all_extracted_images,
                 outcomes, sleeps, appended>>

\* lines 253-254: the text of a page that exhausted its attempts
ErrorMarkerUnset(i, e) == NoneMd

ErrorMarker(i, e) == <<[k |-> "err", page |-> i, attempts |-> max_retries, error |-> e]>>

RECURSIVE Pow2(_)
Pow2(n) == IF n = 0 THEN 1 ELSE 2 * Pow2(n - 1)

\* line 243
SleepTimeFromZero(a) == retry_delay * Pow2(a)

SleepTime(a) == retry_delay * Pow2(a - 1)

\* line 242
MayRetry(a) == a < max_retries

\* line 223: range(1, max_retries + 1) has an attempt after a
LoopContinuesPastCap(a) == a <= max_retries

LoopContinues(a) == a < max_retries

\* lines 240-254: the except branch of attempt `attempt` with exception e
AttemptFailed(e, kind) ==
  /\ outcomes' = Append(outcomes, kind)
  /\ IF MayRetry(attempt)
     THEN /\ sleeps' = Append(sleeps, SleepTime(attempt))
          /\ UNCHANGED failed_pages
     ELSE /\ failed_pages' = Append(failed_pages,
                                    [page_num |-> idx, image_path |-> image_paths[idx],
                                     error |-> e])
          /\ UNCHANGED sleeps
  /\ IF LoopContinues(attempt)
     THEN attempt' = attempt + 1 /\ pc' = "attempt"
     ELSE attempt' = attempt /\ pc' = "append"

\* lines 226-235 and 240-254: inference returned text (line 226 assigns it)
\* and _replace_image_placeholders_single_page raised inside the same try
ReconcileRaisesSwallowed(text) ==
  /\ outcomes' = Append(outcomes, "recon_raise")
  /\ page_markdown' = text
  /\ pc' = "append"
  /\ UNCHANGED <<attempt, sleeps, failed_pages>>

ReconcileRaises(text) ==
  /\ AttemptFailed("ReconcileError", "recon_raise")
  /\ page_markdown' =
       IF MayRetry(attempt) THEN text ELSE ErrorMarker(idx, "ReconcileError")

\* lines 223-254: one attempt of the retry loop for page idx
Attempt(texts) ==
  /\ pc = "attempt"
  /\ UNCHANGED reconvars
  /\ LET page_num == page_start + idx - 1
         has_images == all_extracted_images[page_num] # <<>>
     IN \/ \E e \in InferErrors :
             /\ AttemptFailed(e, "infer_raise")
             /\ page_markdown' =
                  IF MayRetry(attempt) THEN page_markdown ELSE ErrorMarker(idx, e)
        \/ \E text \in texts :
             /\ has_images
             /\ ReconcileRaises(text)
        \/ \E text \in texts :
             /\ page_markdown' =
                  IF has_images
                  THEN replace_image_placeholders_single_page(
                         text, all_extracted_images[page_num], page_num,
                         IF images_dir_local THEN ImagesDirName ELSE None)
                  ELSE text
             /\ outcomes' = Append(outcomes, "ok")
             /\ pc' = "append"
             /\ UNCHANGED <<attempt, sleeps, failed_pages>>
  /\ UNCHANGED <<runs, argvars, fsvars, tmpvars, temp_dir, rastervars,
                 all_extracted_images, idx, output_path_obj, appended, header_writes,
                 error, result>>

\* _append_markdown_page: open(output_path, 'a') and write the section
Section(n, md) == [k |-> "section", page |-> n, text |-> Strip(md)]

append_markdown_page_w(file, n, md) == <<Section(n, md)>>

append_markdown_page(file, n, md) == Append(file, Section(n, md))

\* lines 256-260: append the page, then the next iteration of the page loop
AppendPage ==
  /\ pc = "append"
  /\ UNCHANGED reconvars
  /\ \E io_ok \in BOOLEAN :
       IF output_path_obj /\ Truthy(page_markdown) /\ ~io_ok
       THEN /\ Raise("OSError", temp_dir, tmp_exists)
            /\ UNCHANGED <<outFile, appended, idx, attempt, page_markdown,
                           outcomes, sleeps>>
       ELSE /\ IF output_path_obj /\ Truthy(page_markdown)
               THEN /\ outFile' = append_markdown_page(outFile, idx, page_markdown)
                    /\ appended' = Append(appended, Section(idx, page_markdown))
               ELSE UNCHANGED <<outFile, appended>>
            /\ idx' = idx + 1 /\ attempt' = 1 /\ page_markdown' = NoneMd
            /\ outcomes' = NoHistory /\ sleeps' = NoHistory
            /\ pc' = IF idx = Len(image_paths) THEN "finalize" ELSE "attempt"
            /\ UNCHANGED <<error, result, tmp_exists>>
  /\ UNCHANGED <<runs, argvars, failedLedger, imageLedger, images_dir, page_image_files,
                 tmp_created, tmp_files, temp_dir, rastervars, all_extracted_images,
                 failed_pages, output_path_obj, header_writes>>

\* _save_image_metadata: flatten the dict in key order and summarise
FlattenOnePage(extracted_images, p) == extracted_images[p]

RECURSIVE Flatten(_, _)
Flatten(extracted_images, p) ==
  IF p > MaxPages THEN <<>>
  ELSE extracted_images[p] \o Flatten(extracted_images, p + 1)

save_image_metadata_every_page(extracted_images, document_name) ==
  LET all_images == Flatten(extracted_images, 1)
  IN [document |-> document_name,
      total_pages |-> Cardinality(DOMAIN extracted_images),
      total_images |-> Len(all_images),
      images |-> all_images]

save_image_metadata(extracted_images, document_name) ==
  LET all_images == Flatten(extracted_images, 1)
  IN [document |-> document_name,
      total_pages |-> Cardinality({p \in PageNums : extracted_images[p] # <<>>}),
      total_images |-> Len(all_images),
      images |-> all_images]

\* lines 262-301: ledgers, summary, finally
Finalize ==
  /\ pc = "finalize"
  /\ UNCHANGED reconvars
  /\ \E io_ok \in BOOLEAN :
       IF output_path_obj /\ failed_pages # <<>> /\ ~io_ok
       THEN /\ Raise("OSError", temp_dir, tmp_exists)
            /\ UNCHANGED <<failedLedger, imageLedger>>
       ELSE /\ failedLedger' =
                 IF output_path_obj /\ failed_pages # <<>>
                 THEN <<failed_pages>> ELSE failedLedger
            /\ imageLedger' =
                 IF /\ output_path_obj
                    /\ all_extracted_images # NoImages
                    /\ SAVE_IMAGE_METADATA_JSON
                 THEN <<save_image_metadata(all_extracted_images, "doc")>>
                 ELSE imageLedger
            /\ result' = <<[successful |-> Len(image_paths) - Len(failed_pages),
                            total |-> Len(image_paths)]>>
            /\ tmp_exists' = Finally(temp_dir, tmp_exists)
            /\ pc' = "returned"
            /\ UNCHANGED error
  /\ UNCHANGED <<runs, argvars, outFile, images_dir, page_image_files, tmp_created,
                 tmp_files, temp_dir, rastervars, loopvars, histvars>>

\* one call on a clean file system, every input
Next ==
  \/ Call(1, MaxPages)
  \/ MkTemp
  \/ RasterizePage
  \/ PdfToImagesReturn
  \/ ExtractPage(RawLists)
  \/ WriteHeader
  \/ Attempt(RunTexts)
  \/ AppendPage
  \/ Finalize

Spec == Init /\ [][Next]_vars

\* successive calls on the same output path, short documents
NextRuns ==
  \/ Call(MaxRuns, RunsPages)
  \/ MkTemp
  \/ RasterizePage
  \/ PdfToImagesReturn
  \/ ExtractPage(RunsRaw)
  \/ WriteHeader
  \/ Attempt(RunsTexts)
  \/ AppendPage
  \/ Finalize

SpecRuns == Init /\ [][NextRuns]_vars


\* ------------------------------------------------------------------------
\* _replace_image_placeholders_single_page on its own: every page text of
\* at most MaxLen tokens, 0..MaxG graphics of page 1, with and without an
\* images directory name
Graphics(n) ==
  [i \in 1..n |-> ImageMeta(1, i, MIN_IMAGE_WIDTH, MIN_IMAGE_HEIGHT, 2048, "png",
                            ImagesDirName)]

InitRecon ==
  /\ InitRun
  /\ r_pc = "call"
  /\ r_in \in SeqsUpTo(ModelTokens, MaxLen)
  /\ r_imgs \in {Graphics(n) : n \in 0..MaxG}
  /\ r_dir \in {ImagesDirName, None}
  /\ r_out = <<>>

Reconcile ==
  /\ r_pc = "call"
  /\ r_out' = replace_image_placeholders_single_page(r_in, r_imgs, 1, r_dir)
  /\ r_pc' = "done"
  /\ UNCHANGED <<r_in, r_imgs, r_dir>>
  /\ UNCHANGED <<pc, runs, argvars, fsvars, tmpvars, temp_dir, rastervars, loopvars,
                 histvars, error, result>>

NextRecon == Reconcile

SpecRecon == InitRecon /\ [][NextRecon]_vars


\* ------------------------------------------------------------------------
\* Properties

Count(md, kinds) == Cardinality({i \in 1..Len(md) : md[i].k \in kinds})
Proj(md, kinds) == SelectSeq(md, LAMBDA t : t.k \in kinds)
Min(a, b) == IF a < b THEN a ELSE b
IsPrefix(a, b) == Len(a) <= Len(b) /\ SubSeq(b, 1, Len(a)) = a
Completed == pc = "returned" /\ output_path
Exited == pc \in {"returned", "raised"}

\* C1: a completed run with an output path leaves exactly
\* last_page - first_page + 1 '## Page' sections in the output file,
\* whatever the inference attempts raised or returned.
C1_SectionPerPage ==
  Completed => Count(outFile, {"section"}) = rlast - rfirst + 1

\* C2: a page whose attempts all fail causes exactly 3 invocations and then
\* exactly one failure record for it; a page whose attempt k succeeds causes
\* exactly k invocations (no attempt after the success) and no failure record.
C2_RetryCap ==
  /\ Len(outcomes) <= 3
  /\ pc = "attempt" =>
       /\ Len(outcomes) = attempt - 1
       /\ \A k \in 1..Len(outcomes) : outcomes[k] # "ok"
  /\ pc = "append" =>
       LET n == Len(outcomes)
           recs == {j \in 1..Len(failed_pages) : failed_pages[j].page_num = idx}
       IN /\ n >= 1
          /\ \A k \in 1..(n - 1) : outcomes[k] # "ok"
          /\ outcomes[n] = "ok" => recs = {}
          /\ outcomes[n] # "ok" => n = 3 /\ Cardinality(recs) = 1

C2_Witness ==
  /\ pc = "append"
  /\ outcomes = <<"infer_raise", "infer_raise", "infer_raise">>
  /\ Len(failed_pages) = 1

\* C3: the sleeps made for a page are 2 seconds after a failed attempt 1 and
\* 4 seconds after a failed attempt 2; nothing is slept after a successful
\* attempt or after the failed attempt 3.
C3_Backoff ==
  LET failed == Cardinality({k \in 1..Len(outcomes) : outcomes[k] # "ok"})
      slept == IF failed >= 3 THEN 2 ELSE failed
  IN sleeps = SubSeq(<<2, 4>>, 1, slept)

C3_Witness ==
  /\ pc = "append"
  /\ Len(outcomes) = 3
  /\ outcomes[3] = "ok"
  /\ sleeps = <<2, 4>>

\* C4: with P image-link placeholders, G graphics and an images directory
\* name, reconciliation rewrites exactly min(P, G) placeholders to graphic
\* links and leaves the other P - min(P, G) as the unresolved placeholder.
C4_MinResolved ==
  (r_pc = "done" /\ r_dir # None) =>
    LET P == Count(r_in, {"ph"})
        G == Len(r_imgs)
    IN /\ Count(r_out, {"img"}) = Min(P, G)
       /\ Count(r_out, {"ph"}) = P - Min(P, G)

C4_Witness ==
  /\ r_pc = "done" /\ r_dir # None
  /\ Count(r_in, {"ph"}) = 3
  /\ Len(r_imgs) = 2
  /\ Count(r_out, {"ph"}) = 1

\* C5: for every page text holding occurrences of the placeholder token, the
\* n-th occurrence in text order is rewritten to the path of the n-th graphic
\* in extraction order, for every n <= min(P, G).
C5_Positional ==
  (r_pc = "done" /\ r_dir # None) =>
    LET inP == Proj(r_in, {"ph", "tok"})
        outP == Proj(r_out, {"ph", "tok", "img", "path"})
    IN \A n \in 1..Min(Len(inP), Len(r_imgs)) :
         /\ outP[n].k \in {"img", "path"}
         /\ outP[n].path = <<r_dir, r_imgs[n].filename>>

\* C6: after completed runs on one output path, the failure ledger exists
\* only if a page exhausted its retries in the most recent run.
C6_LedgerOnlyOnFailure ==
  Completed => (failedLedger # <<>> => failed_pages # <<>>)

\* C7: the header is written once per run and before any section; the file
\* of a run is one header followed only by the sections that run appended.
C7_OneHeader ==
  /\ header_writes <= 1
  /\ appended # <<>> => header_writes = 1
  /\ Count(outFile, {"header"}) <= 1
  /\ output_path_obj =>
       /\ header_writes = 1
       /\ outFile = <<Header("doc", Len(image_paths))>> \o appended

C7_Witness ==
  /\ runs = 2 /\ Completed
  /\ appended # <<>>
  /\ failedLedger # <<>> /\ failed_pages = <<>>

\* C8: once the header is written the file only grows by appending, and the
\* section numbers in the file are strictly ascending in every state.
Ascending(file) ==
  \A i, j \in 1..Len(file) :
    (i < j /\ file[i].k = "section" /\ file[j].k = "section") => file[i].page < file[j].page

C8_AppendOnly ==
  /\ [][(output_path_obj /\ output_path_obj') => IsPrefix(outFile, outFile')]_vars
  /\ [](Ascending(outFile))

C8_Witness == Len(appended) >= 2 /\ Len(outFile) = 3

\* C9: a page that failed all its attempts gets a section holding the error
\* marker, and no inference failure aborts the run: the run goes on and
\* returns its summary, also when every page failed.
C9_Degraded ==
  /\ pc = "raised" => error \notin (InferErrors \cup {"ReconcileError"})
  /\ output_path_obj =>
       \A j \in 1..Len(failed_pages) :
         LET f == failed_pages[j]
         IN f.page_num < idx =>
              \E i \in 1..Len(outFile) :
                outFile[i] = Section(f.page_num, ErrorMarker(f.page_num, f.error))
  /\ pc = "returned" =>
       result = <<[successful |-> Len(image_paths) - Len(failed_pages),
                   total |-> Len(image_paths)]>>

C9_Witness ==
  /\ Completed
  /\ Len(image_paths) = 2
  /\ Len(failed_pages) = 2

\* C10: on every exit of convert_pdf_to_markdown after the temporary
\* directory was created, the directory no longer exists.
C10_TempRemoved ==
  (Exited /\ tmp_created) => ~tmp_exists


\* C11: when the page range is invalid the error is raised before any work:
\* no temporary directory, no images directory, no page rasterized, no
\* graphic extracted, no inference invoked, nothing written to the output.
C11_NoWorkBeforeRangeError ==
  (pc = "raised" /\ error = "ValueError") =>
    /\ ~tmp_created
    /\ ~images_dir
    /\ tmp_files = {} /\ image_paths = <<>>
    /\ all_extracted_images = NoImages /\ page_image_files = {}
    /\ outcomes = <<>>
    /\ outFile = <<>> /\ header_writes = 0

\* C12: a failure of graphic extraction for a page never aborts the run.
C12_ExtractionNeverAborts ==
  pc = "raised" => error # "RuntimeError"

\* C13: a graphic narrower than MIN_IMAGE_WIDTH or lower than
\* MIN_IMAGE_HEIGHT is in no extraction result, in no entry of the graphic
\* ledger and in no reconciled page text.
BigEnough(m) == m.width >= MIN_IMAGE_WIDTH /\ m.height >= MIN_IMAGE_HEIGHT

C13_SmallNeverMaterialized ==
  /\ \A p \in PageNums : \A i \in 1..Len(all_extracted_images[p]) :
       BigEnough(all_extracted_images[p][i])
  /\ \A l \in 1..Len(imageLedger) : \A i \in 1..Len(imageLedger[l].images) :
       BigEnough(imageLedger[l].images[i])
  /\ \A j \in 1..Len(outFile) :
       outFile[j].k = "section" =>
         \A t \in 1..Len(outFile[j].text) :
           LET tok == outFile[j].text[t]
           IN /\ (tok.k = "cmt" /\ tok.meta # NoMeta) => BigEnough(tok.meta)
              /\ tok.k = "img" =>
                   \E p \in PageNums : \E i \in 1..Len(all_extracted_images[p]) :
                     tok.path = <<ImagesDirName, all_extracted_images[p][i].filename>>

C13_Witness ==
  /\ Completed
  /\ \E p \in PageNums :
       /\ Len(all_extracted_images[p]) = 1
       /\ all_extracted_images[p][1].index = 2
       /\ \E j \in 1..Len(outFile) :
            /\ outFile[j].k = "section"
            /\ Count(outFile[j].text, {"img"}) = 1
  /\ imageLedger # <<>>

\* C14: the number in a page's "## Page N" heading and the page number in
\* that page's failure record equal the page's 1-indexed ordinal within the
\* document (page_start + idx - 1), also when first_page > 1.
C14_DocumentOrdinal ==
  [][/\ Len(appended') = Len(appended) + 1 =>
          appended'[Len(appended')].page = page_start + idx - 1
     /\ Len(failed_pages') = Len(failed_pages) + 1 =>
          failed_pages'[Len(failed_pages')].page_num = page_start + idx - 1]_vars

\* C15: sections are streamed: whenever inference is invoked for the page at
\* position idx of the range, the output file already holds the header and
\* the sections of the pages at positions 1..idx-1, in that order.
C15_Streamed ==
  (pc = "attempt" /\ output_path_obj) =>
    /\ Len(outFile) = idx
    /\ outFile[1].k = "header"
    /\ \A j \in 1..(idx - 1) :
         outFile[j + 1].k = "section" /\ outFile[j + 1].page = j

\* C19: at the end of every completed run the total page count written in
\* the header equals the number of sections in the output file.
C19_HeaderCountsSections ==
  Completed =>
    /\ outFile # <<>> /\ outFile[1].k = "header"
    /\ outFile[1].total_pages = Count(outFile, {"section"})

FullyRasterized ==
  image_paths = [j \in 1..(rlast - rfirst + 1) |-> rfirst + j - 1]

References(text) == Proj(text, {"img", "path"})

C17_LedgerListsEveryGraphic ==
  (Completed /\ all_extracted_images # NoImages) =>
    /\ Len(imageLedger) = 1
    /\ LET L == imageLedger[1]
       IN /\ \A p \in PageNums : \A i \in 1..Len(all_extracted_images[p]) :
               Cardinality({j \in 1..Len(L.images) :
                              L.images[j] = all_extracted_images[p][i]}) = 1
          /\ \A j \in 1..Len(L.images) :
               \E p \in rfirst..rlast : \E i \in 1..Len(all_extracted_images[p]) :
                 L.images[j] = all_extracted_images[p][i]
          /\ L.total_images = Len(L.images)
    /\ \A j \in 1..Len(outFile) :
         outFile[j].k = "section" =>
           LET G == all_extracted_images[page_start + outFile[j].page - 1]
               refs == References(outFile[j].text)
               P == Count(outFile[j].text, {"img", "ph"})
           IN /\ Len(refs) = Min(P, Len(G))
              /\ \A t \in 1..Len(refs) :
                   refs[t].path = <<ImagesDirName, G[t].filename>>

C17_Witness ==
  /\ Completed
  /\ Len(failed_pages) = 1 /\ failed_pages[1].page_num = 1
  /\ all_extracted_images[1] # <<>>
  /\ Len(all_extracted_images[2]) = 2
  /\ \E j \in 1..Len(outFile) :
       /\ outFile[j].k = "section" /\ outFile[j].page = 2
       /\ Len(References(outFile[j].text)) = 1
  /\ imageLedger # <<>>
  /\ imageLedger[1].total_images = Len(all_extracted_images[1]) + 2

\* C18: when every placeholder of the page is directly followed by a comment
\* carrying a description (on one line or spanning lines), every resolved
\* link is followed by one comment that holds the description and the
\* metadata, and reconciliation adds no comment to the text.
AfterWs(md, i) ==
  CHOOSE c \in (i + 1)..(Len(md) + 1) :
    /\ \A j \in (i + 1)..(c - 1) : md[j].k = "ws"
    /\ c <= Len(md) => md[c].k # "ws"

HasDescription(md, i) ==
  LET c == AfterWs(md, i)
  IN c <= Len(md) /\ md[c].k = "cmt" /\ md[c].desc # ""

C18_SameComment ==
  (/\ r_pc = "done" /\ r_dir # None
   /\ \A i \in 1..Len(r_in) : r_in[i].k = "ph" => HasDescription(r_in, i)) =>
    /\ Count(r_out, {"cmt"}) = Count(r_in, {"cmt"})
    /\ \A j \in 1..Len(r_out) :
         r_out[j].k = "img" =>
           /\ HasDescription(r_out, j)
           /\ r_out[AfterWs(r_out, j)].meta # NoMeta

\* C20: a rasterization failure ends the run at once with the rasterizer's
\* exception: the failing page is not rasterized again, no later page is
\* rasterized, nothing is extracted, inferred, written or returned; and a run
\* that gets past rasterization has rasterized every page of the range.
C20_RasterFailureAborts ==
  /\ error = "PDFPageCountError" =>
       /\ pc = "raised" /\ result = <<>>
       /\ raster_page \in rfirst..rlast
       /\ tmp_files = rfirst..(raster_page - 1)
       /\ image_paths = [j \in 1..(raster_page - rfirst) |-> rfirst + j - 1]
       /\ all_extracted_images = NoImages /\ page_image_files = {}
       /\ outcomes = <<>> /\ sleeps = <<>> /\ failed_pages = <<>>
       /\ appended = <<>> /\ outFile = <<>> /\ header_writes = 0
  /\ pc \in {"extract", "header", "attempt", "append", "finalize", "returned"} =>
       /\ error # "PDFPageCountError"
       /\ tmp_files = rfirst..rlast
       /\ Len(image_paths) = rlast - rfirst + 1

C20_Witness ==
  /\ pc = "raised" /\ error = "PDFPageCountError"
  /\ rlast = rfirst + 1
  /\ image_paths = <<rfirst>> /\ raster_page = rlast

\* C21: an attempt fails when the inference call raises and also when the
\* reconciliation after it raises; after a failed attempt k < 3 inference is
\* invoked again as attempt k + 1, after a failed attempt 3 the page has the
\* error marker and a failure record with the last exception, also when all
\* three inference calls returned text; an attempt in which both steps
\* completed is the last invocation for the page.
FailedOutcomes == {"infer_raise", "recon_raise"}

C21_AttemptFailsOnEitherStep ==
  pc \in {"attempt", "append"} =>
    /\ Len(outcomes) <= max_retries
    /\ \A k \in 1..Len(outcomes) :
         /\ outcomes[k] = "ok" => (k = Len(outcomes) /\ pc = "append")
         /\ outcomes[k] \in FailedOutcomes =>
              \/ k < Len(outcomes)
              \/ k < max_retries /\ pc = "attempt" /\ attempt = k + 1
              \/ /\ k = max_retries /\ pc = "append"
                 /\ failed_pages # <<>>
                 /\ LET f == failed_pages[Len(failed_pages)]
                    IN /\ f.page_num = idx
                       /\ f.error = IF outcomes[k] = "recon_raise"
                                    THEN "ReconcileError" ELSE "ThrottlingException"
                       /\ page_markdown = ErrorMarker(idx, f.error)

C21_Witness ==
  /\ pc = "append"
  /\ outcomes = <<"recon_raise", "recon_raise", "recon_raise">>
  /\ page_markdown = ErrorMarker(idx, "ReconcileError")
  /\ failed_pages # <<>>
  /\ failed_pages[Len(failed_pages)].error = "ReconcileError"

\* C22: a run that aborts on a missing input file, an invalid page range, a
\* rasterization failure or an exception escaping graphic extraction aborts
\* before the header step, and no step before the header step changes the
\* output file, the failure ledger or the graphic ledger.
BeforeHeader == {"idle", "returned", "raised", "pdf_to_images", "raster", "extract"}

FatalBeforeHeader ==
  {"FileNotFoundError", "ValueError", "PDFPageCountError", "RuntimeError"}

C22_FatalLeavesOutputs ==
  [][/\ pc \in BeforeHeader => UNCHANGED <<outFile, failedLedger, imageLedger>>
     /\ (pc' = "raised" /\ error' \in FatalBeforeHeader) => pc \in BeforeHeader]_vars

C22_Witness ==
  /\ runs = 2 /\ pc = "raised" /\ error = "RuntimeError"
  /\ Len(outFile) = 2 /\ outFile[1].k = "header" /\ outFile[2].k = "section"
  /\ failedLedger # <<>>

\* C23: total_pages of the graphic ledger is the number of pages of the
\* processed range that have at least one entry in the ledger; pages without
\* graphics are not counted, so it never exceeds the header's page count.
LedgerPages(L) == {L.images[j].page_num : j \in 1..Len(L.images)}

C23_LedgerPageCount ==
  (Completed /\ imageLedger # <<>>) =>
    LET L == imageLedger[1]
    IN /\ L.total_pages = Cardinality(LedgerPages(L))
       /\ LedgerPages(L) = {p \in rfirst..rlast : all_extracted_images[p] # <<>>}
       /\ L.total_pages >= 1
       /\ L.total_pages <= outFile[1].total_pages

C23_Witness ==
  /\ Completed /\ imageLedger # <<>>
  /\ imageLedger[1].total_pages = 1
  /\ outFile[1].total_pages = 2
  /\ all_extracted_images[1] = <<>>

====
